---- MODULE Spec2Model ----
(***************************************************************************)
(* Match-3 board engine of Toothbrook/SWA-Assignment-2, in its two         *)
(* variants: the functional one (src/functional/src/board.ts) and the      *)
(* object-oriented one (src/oo/src/board.ts).                              *)
(*                                                                         *)
(* A board is the array tilePieces of {position, value} records, filled    *)
(* row-major.  A piece is referred to by its index in that array (object   *)
(* identity in the source), 0 standing for "no such piece" (the undefined  *)
(* that Array.find returns).  The value Undefined stands for a cleared     *)
(* tile.                                                                   *)
(***************************************************************************)
EXTENDS Integers, Sequences, FiniteSets, TLC

\* ------------------------------------------------------------------ bounds
\* boards: width x height with at most MaxCells cells
MaxWidth == 5
MaxHeight == 5
MaxCells == 5
\* values a GeneratorFake has queued and an AnyGenerator hands out in one
\* move; length of a CyclicGenerator's cycle
MaxQueue == 3
MaxCycle == 2
\* passes of one move that are recorded
MaxPasses == 2
MaxListeners == 1
\* a caller that catches the supplier's error goes on using boards this big
MaxRecoverCells == 4
\* boards of the runs with a GeneratorFake or a CyclicGenerator
MaxSuppliedCells == 3
\* values a GeneratorFake holds after the test has queued more with prepare
MaxPrepared == 4

Undefined == 0
\* tile values: the source compares them with === and nothing else
Values == {1, 2}

\* ------------------------------------------------------- positions, pieces
Pos(r, c) == [row |-> r, col |-> c]

Piece(r, c, v) == [position |-> Pos(r, c), value |-> v]

\* Array.find on the position: the index of the first piece with it, 0 when
\* there is none (the undefined that find returns)
FindTilePieceOnPosition(tp, p) ==
    LET found == {i \in 1..Len(tp) : tp[i].position = p}
    IN IF found = {} THEN 0
       ELSE CHOOSE i \in found : \A j \in found : i <= j

\* true when p is INSIDE the board (the source's name says the opposite)
IsPositionOutsideBoard(w, h, p) ==
    IF p.col >= w \/ p.col < 0 THEN FALSE
    ELSE IF p.row >= h \/ p.row < 0 THEN FALSE
    ELSE TRUE

FindNextPiecePosition(p, direction) ==
    CASE direction = "Down"  -> Pos(p.row + 1, p.col)
      [] direction = "Up"    -> Pos(p.row - 1, p.col)
      [] direction = "Left"  -> Pos(p.row, p.col - 1)
      [] direction = "Right" -> Pos(p.row, p.col + 1)

\* swapProperties(firstIndex, secondIndex, `position`): the fault
\* PositionsNeverChange catches
swapPositions(tp, firstIndex, secondIndex) ==
    [tp EXCEPT ![firstIndex].position = tp[secondIndex].position,
               ![secondIndex].position = tp[firstIndex].position]

\* swapProperties(firstIndex, secondIndex, `value`): only the values move
swapProperties(tp, firstIndex, secondIndex) ==
    [tp EXCEPT ![firstIndex].value = tp[secondIndex].value,
               ![secondIndex].value = tp[firstIndex].value]

SwapPieces(tp, first, second) ==
    swapProperties(tp, FindTilePieceOnPosition(tp, first),
                       FindTilePieceOnPosition(tp, second))

\* the pieces of a row from right to left: the fault MatchPositionsAscend
\* catches
FindAllTilePiecesInRowBackwards(tp, rowIndex) ==
    LET Keep(i) == tp[i].position.row = rowIndex
        kept == SelectSeq([i \in 1..Len(tp) |-> i], Keep)
    IN [k \in 1..Len(kept) |-> kept[Len(kept) + 1 - k]]

\* a column query that answers an index past the last column with column 0:
\* the fault ExtraColumnIsInert catches
FindAllTilePiecesInColumnWrapped(tp, columnIndex) ==
    LET inRange == \E i \in 1..Len(tp) : tp[i].position.col = columnIndex
        Keep(i) == tp[i].position.col = (IF inRange THEN columnIndex ELSE 0)
    IN SelectSeq([i \in 1..Len(tp) |-> i], Keep)

\* Array.filter: the indices of the pieces kept, in array order
FindAllTilePiecesInRow(tp, rowIndex) ==
    LET Keep(i) == tp[i].position.row = rowIndex
    IN SelectSeq([i \in 1..Len(tp) |-> i], Keep)

FindAllTilePiecesInColumn(tp, columnIndex) ==
    LET Keep(i) == tp[i].position.col = columnIndex
    IN SelectSeq([i \in 1..Len(tp) |-> i], Keep)

\* ------------------------------------------------------------ match finder
\* the chain of pieces equal to value, from currentPiece on in one direction
RECURSIVE CheckNeighbours(_, _, _, _)
CheckNeighbours(tp, currentPiece, value, direction) ==
    IF currentPiece = 0 THEN <<>>
    ELSE IF tp[currentPiece].value = value
         THEN <<currentPiece>> \o
              CheckNeighbours(tp,
                  FindTilePieceOnPosition(tp,
                      FindNextPiecePosition(tp[currentPiece].position, direction)),
                  value, direction)
         ELSE <<>>

NoMatch == [boardEffects |-> <<>>, matches |-> <<>>]

CreateBoardEffectForMatch(tp, matchedPieces) ==
    [boardEffects |->
        << [kind |-> "Match",
            matched |-> tp[matchedPieces[1]].value,
            positions |-> [k \in 1..Len(matchedPieces) |->
                              tp[matchedPieces[k]].position]] >>,
     matches |-> matchedPieces]

\* a run of two taken for a match: the fault MatchesAreRuns catches
PairsCheck(tp, startPiece, before, after) ==
    LET value == tp[startPiece].value
        p == tp[startPiece].position
        firstSide == CheckNeighbours(tp,
            FindTilePieceOnPosition(tp, FindNextPiecePosition(p, before)),
            value, before)
        secondSide == CheckNeighbours(tp,
            FindTilePieceOnPosition(tp, FindNextPiecePosition(p, after)),
            value, after)
    IN IF Len(firstSide) + Len(secondSide) + 1 >= 2
       THEN CreateBoardEffectForMatch(tp, firstSide \o <<startPiece>> \o secondSide)
       ELSE NoMatch

\* the run through startPiece along first/second direction, when 3 or longer
NeighboursCheck(tp, startPiece, before, after) ==
    LET value == tp[startPiece].value
        p == tp[startPiece].position
        firstSide == CheckNeighbours(tp,
            FindTilePieceOnPosition(tp, FindNextPiecePosition(p, before)),
            value, before)
        secondSide == CheckNeighbours(tp,
            FindTilePieceOnPosition(tp, FindNextPiecePosition(p, after)),
            value, after)
    IN IF Len(firstSide) + Len(secondSide) + 1 >= 3
       THEN CreateBoardEffectForMatch(tp, firstSide \o <<startPiece>> \o secondSide)
       ELSE NoMatch

AllNeighboursInRowCheck(tp, startPiece) ==
    NeighboursCheck(tp, startPiece, "Left", "Right")

AllNeighboursInColCheck(tp, startPiece) ==
    NeighboursCheck(tp, startPiece, "Up", "Down")

NeighboursInLineCheck(tp, startPiece, axis) ==
    IF axis = "row" THEN AllNeighboursInRowCheck(tp, startPiece)
    ELSE AllNeighboursInColCheck(tp, startPiece)

InSeq(x, s) == \E k \in 1..Len(s) : s[k] = x

\* one line of the functional scan: a value already looked at in this line is
\* skipped (checkedValues), whatever its position
RECURSIVE ScanByValue(_, _, _, _, _, _)
ScanByValue(tp, elements, k, checkedValues, acc, axis) ==
    IF k > Len(elements) THEN acc
    ELSE LET element == elements[k] IN
         IF InSeq(tp[element].value, checkedValues)
         THEN ScanByValue(tp, elements, k + 1, checkedValues, acc, axis)
         ELSE LET result == NeighboursInLineCheck(tp, element, axis) IN
              ScanByValue(tp, elements, k + 1,
                  Append(checkedValues, tp[element].value),
                  [matches |-> acc.matches \o result.matches,
                   boardEffects |-> acc.boardEffects \o result.boardEffects],
                  axis)

RECURSIVE RowsFrom(_, _, _, _)
RowsFrom(tp, h, i, acc) ==
    IF ~(i < h) THEN acc
    ELSE RowsFrom(tp, h, i + 1,
             ScanByValue(tp, FindAllTilePiecesInRow(tp, i), 1, <<>>, acc,
                         "row"))

FindAllRowMatches(tp, h) == RowsFrom(tp, h, 0, NoMatch)

\* the columns scanned from column 0 upwards: the fault ScanOrderKept catches
RECURSIVE ColumnsLeftToRight(_, _, _)
ColumnsLeftToRight(tp, i, acc) ==
    IF ~(i >= 0) THEN acc
    ELSE ScanByValue(tp, FindAllTilePiecesInColumn(tp, i), 1, <<>>,
                     ColumnsLeftToRight(tp, i - 1, acc), "col")

RECURSIVE ColumnsFrom(_, _, _)
ColumnsFrom(tp, i, acc) ==
    IF ~(i >= 0) THEN acc
    ELSE ColumnsFrom(tp, i - 1,
             ScanByValue(tp, FindAllTilePiecesInColumn(tp, i), 1, <<>>, acc,
                         "col"))

\* the scan starts at column index width, one past the last column
FindAllColumnMatches(tp, w) == ColumnsFrom(tp, w, NoMatch)

\* ---- the OO scan: a piece already part of a match found earlier is skipped
RECURSIVE ScanByPiece(_, _, _, _, _)
ScanByPiece(tp, pieces, k, acc, axis) ==
    IF k > Len(pieces) THEN acc
    ELSE LET tilePiece == pieces[k] IN
         IF InSeq(tilePiece, acc.matches)
         THEN ScanByPiece(tp, pieces, k + 1, acc, axis)
         ELSE LET result == NeighboursInLineCheck(tp, tilePiece, axis) IN
              ScanByPiece(tp, pieces, k + 1,
                  [matches |-> acc.matches \o result.matches,
                   boardEffects |-> acc.boardEffects \o result.boardEffects],
                  axis)

RECURSIVE OORowsFrom(_, _, _, _)
OORowsFrom(tp, h, i, acc) ==
    IF ~(i < h) THEN acc
    ELSE OORowsFrom(tp, h, i + 1,
             ScanByPiece(tp, FindAllTilePiecesInRow(tp, i), 1, acc,
                         "row"))

\* matches: the pieces found; boardEffects: the Match events the scan hands
\* to CallAllListenersOnMatch (delivered only while isEventsEnabled)
FindRowMatches(tp, h) == OORowsFrom(tp, h, 0, NoMatch)

RECURSIVE OOColsFrom(_, _, _)
OOColsFrom(tp, i, acc) ==
    IF ~(i >= 0) THEN acc
    ELSE OOColsFrom(tp, i - 1,
             ScanByPiece(tp, FindAllTilePiecesInColumn(tp, i), 1, acc,
                         "col"))

FindColMatches(tp, w) == OOColsFrom(tp, w, NoMatch)

\* the two scans of one variant
RowScan(v, tp, h) ==
    IF v = "functional" THEN FindAllRowMatches(tp, h) ELSE FindRowMatches(tp, h)

ColumnScan(v, tp, w) ==
    IF v = "functional" THEN FindAllColumnMatches(tp, w) ELSE FindColMatches(tp, w)

\* ---------------------------------------------------------- move validator
\* a trial that writes the first value over the second and swaps nothing:
\* the fault CanMoveIsSymmetric catches
TrialOverwrite(tp, originalPosition, newPosition) ==
    [tp EXCEPT ![FindTilePieceOnPosition(tp, newPosition)].value =
                   tp[FindTilePieceOnPosition(tp, originalPosition)].value]

\* functional IsMoveLegal: the verdict (the trial swap is undone before it
\* returns, so the board it leaves is TrialBoard swapped back)
TrialBoard(tp, originalPosition, newPosition) ==
    SwapPieces(tp, originalPosition, newPosition)

IsMoveLegal(tp, w, h, originalPosition, newPosition) ==
    IF ~IsPositionOutsideBoard(w, h, originalPosition)
          \/ ~IsPositionOutsideBoard(w, h, newPosition)
    THEN FALSE
    ELSE IF originalPosition.col = newPosition.col
              /\ originalPosition.row = newPosition.row
    THEN FALSE
    ELSE IF originalPosition.col # newPosition.col
              /\ originalPosition.row # newPosition.row
    THEN FALSE
    ELSE LET trial == TrialBoard(tp, originalPosition, newPosition)
             matchesInRows == FindAllRowMatches(trial, h)
             matchesInColumns == FindAllColumnMatches(trial, w)
         IN ~(Len(matchesInRows.matches) = 0 /\ Len(matchesInColumns.matches) = 0)

\* IsSameTile blind to equal positions: the fault CanMoveFailsClosed catches
NeverSameTile(originalPosition, positionToBeChecked) == FALSE

IsSameTile(originalPosition, positionToBeChecked) ==
    originalPosition.row = positionToBeChecked.row
        /\ originalPosition.col = positionToBeChecked.col

IsTileSameRowOrColumn(originalPosition, positionToBeChecked) ==
    ~(originalPosition.row # positionToBeChecked.row
        /\ originalPosition.col # positionToBeChecked.col)

IsPositionWithinBoard(w, h, position) ==
    (position.row < h /\ position.row >= 0) /\ (position.col < w /\ position.col >= 0)

IsAnyMatch(tp, w, h) ==
    ~(Len(FindRowMatches(tp, h).matches) = 0 /\ Len(FindColMatches(tp, w).matches) = 0)

MoveResultInMatches(tp, w, h, originalPosition, newPosition) ==
    IsAnyMatch(TrialBoard(tp, originalPosition, newPosition), w, h)

OOIsMoveLegal(tp, w, h, originalPosition, newPosition) ==
    IF IsSameTile(originalPosition, newPosition) THEN FALSE
    ELSE IF ~IsTileSameRowOrColumn(originalPosition, newPosition) THEN FALSE
    ELSE IF ~IsPositionWithinBoard(w, h, originalPosition)
              \/ ~IsPositionWithinBoard(w, h, newPosition)
    THEN FALSE
    ELSE MoveResultInMatches(tp, w, h, originalPosition, newPosition)

\* ---------------------------------------------------------------- supplier
\* Generator<T>: anything with a next().  AnyGenerator is that interface and
\*   nothing more: each next() hands out some value or throws; queued bounds
\*   the values it hands out in one move; sequence holds the values it hands
\*   out in the pass under way, fixed when the pass starts.
\* GeneratorFake: queued values are still to come; sequence holds those of
\*   them the pass under way draws, fixed when the pass starts (the test fixes
\*   them in the constructor or with prepare).
\* CyclicGenerator: sequence is the cycle, index the next character (0-based).
AnyGenerator ==
    [kind |-> "any", sequence |-> <<>>, index |-> 0, queued |-> MaxQueue]

GeneratorFake(queued) ==
    [kind |-> "fake", sequence |-> <<>>, index |-> 0, queued |-> queued]

CyclicGenerator(sequence) ==
    [kind |-> "cyclic", sequence |-> sequence, index |-> 0, queued |-> 0]

\* a next() that leaves the queue as long as it was: the fault
\* FiniteSupplyEndsMove catches
GeneratorNextUnspent(g) ==
    IF g.kind = "cyclic"
    THEN [threw |-> FALSE, value |-> g.sequence[g.index + 1],
          generator |-> [g EXCEPT !.index = (g.index + 1) % Len(g.sequence)]]
    ELSE IF Len(g.sequence) = 0
         THEN [threw |-> TRUE, value |-> Undefined, generator |-> g]
         ELSE [threw |-> FALSE, value |-> Head(g.sequence),
               generator |-> [g EXCEPT !.sequence = Tail(g.sequence)]]

\* generator.next(): the value, the generator afterwards, or the throw
\* ('Empty queue' for an exhausted GeneratorFake)
GeneratorNext(g) ==
    IF g.kind = "cyclic"
    THEN [threw |-> FALSE, value |-> g.sequence[g.index + 1],
          generator |-> [g EXCEPT !.index = (g.index + 1) % Len(g.sequence)]]
    ELSE IF Len(g.sequence) = 0
         THEN [threw |-> TRUE, value |-> Undefined, generator |-> g]
         ELSE [threw |-> FALSE, value |-> Head(g.sequence),
               generator |-> [g EXCEPT !.sequence = Tail(g.sequence),
                                       !.queued = g.queued - 1]]

\* the generator with the values of the pass under way fixed as s
Upcoming(g, s) == IF g.kind = "cyclic" THEN g ELSE [g EXCEPT !.sequence = s]

\* what a pass that asks for need values can be handed: an AnyGenerator any
\* values, or fewer (it throws at the next); a GeneratorFake what it has queued
Supplies(g, need) ==
    LET most == IF g.queued < need THEN g.queued ELSE need
    IN IF g.kind = "any" THEN UNION {[1..j -> Values] : j \in 0..most}
       ELSE IF g.kind = "fake" THEN [1..most -> Values]
       ELSE {<<>>}

\* ---------------------------------------------------------------- resolver
RECURSIVE ClearFrom(_, _, _)
ClearFrom(tp, matches, k) ==
    IF k > Len(matches) THEN tp
    ELSE ClearFrom([tp EXCEPT ![matches[k]].value = Undefined], matches, k + 1)

\* MatchValuesRemoved / DestroyMatchedTilePieces
MatchValuesRemoved(tp, matchesRows, matchesColumn) ==
    ClearFrom(ClearFrom(tp, matchesRows, 1), matchesColumn, 1)

\* no gravity at all: the fault PassKeepsColumnOrder catches
ShiftNothing(tp, fromRow, col) == tp

RECURSIVE ShiftElementsInColumn(_, _, _)
ShiftElementsInColumn(tp, fromRow, col) ==
    IF ~(fromRow > 0) THEN tp
    ELSE ShiftElementsInColumn(
             SwapPieces(tp, Pos(fromRow, col), Pos(fromRow - 1, col)),
             fromRow - 1, col)

\* every empty cell of tp is at the top of its column: nothing is left to shift
Settled(tp) ==
    \A i \in 1..Len(tp), j \in 1..Len(tp) :
        (/\ tp[i].position.col = tp[j].position.col
         /\ tp[i].position.row < tp[j].position.row
         /\ tp[j].value = Undefined) => tp[i].value = Undefined

\* one call of generator.next() in UpdateBoard: the empty cell the loop had
\* found, and whether the board was settled when the call was made
Draw(cell, shifted) == [cell |-> cell, settled |-> Settled(shifted)]

\* the loops of UpdateBoard run column by column: the fault
\* DrawsFollowCellOrder catches
RECURSIVE RefillByColumn(_, _, _, _, _, _)
RefillByColumn(tp, w, g, k, drawn, draws) ==
    IF k > Len(tp)
    THEN [tilePieces |-> tp, generator |-> g, threw |-> FALSE, drawn |-> drawn,
          draws |-> draws]
    ELSE LET row == (k - 1) % (Len(tp) \div w)
             col == (k - 1) \div (Len(tp) \div w)
             foundElement == FindTilePieceOnPosition(tp, Pos(row, col))
         IN IF tp[foundElement].value = Undefined
            THEN LET shifted == ShiftElementsInColumn(tp,
                                    tp[foundElement].position.row,
                                    tp[foundElement].position.col)
                     n == GeneratorNext(g)
                     top == FindTilePieceOnPosition(shifted,
                                Pos(0, tp[foundElement].position.col))
                 IN IF n.threw
                    THEN [tilePieces |-> shifted, generator |-> g,
                          threw |-> TRUE, drawn |-> drawn, draws |-> draws]
                    ELSE RefillByColumn([shifted EXCEPT ![top].value = n.value],
                                    w, n.generator, k + 1, Append(drawn, n.value),
                                    Append(draws, Draw(tp[foundElement].position, shifted)))
            ELSE RefillByColumn(tp, w, g, k + 1, drawn, draws)

\* a refill that passes over the supplier's error, leaves the cell empty and
\* goes on: the fault SupplierFailureEndsMove catches
RECURSIVE RefillPastFailure(_, _, _, _, _, _)
RefillPastFailure(tp, w, g, k, drawn, draws) ==
    IF k > Len(tp)
    THEN [tilePieces |-> tp, generator |-> g, threw |-> FALSE, drawn |-> drawn,
          draws |-> draws]
    ELSE LET row == (k - 1) \div w
             col == (k - 1) % w
             foundElement == FindTilePieceOnPosition(tp, Pos(row, col))
         IN IF tp[foundElement].value = Undefined
            THEN LET shifted == ShiftElementsInColumn(tp,
                                    tp[foundElement].position.row,
                                    tp[foundElement].position.col)
                     n == GeneratorNext(g)
                     top == FindTilePieceOnPosition(shifted,
                                Pos(0, tp[foundElement].position.col))
                 IN IF n.threw
                    THEN RefillPastFailure(shifted, w, g, k + 1, drawn, draws)
                    ELSE RefillPastFailure([shifted EXCEPT ![top].value = n.value],
                                    w, n.generator, k + 1, Append(drawn, n.value),
                                    Append(draws, Draw(tp[foundElement].position, shifted)))
            ELSE RefillPastFailure(tp, w, g, k + 1, drawn, draws)

\* the two nested loops of UpdateBoard, cell k being (row, col) in loop order
RECURSIVE RefillFrom(_, _, _, _, _, _)
RefillFrom(tp, w, g, k, drawn, draws) ==
    IF k > Len(tp)
    THEN [tilePieces |-> tp, generator |-> g, threw |-> FALSE, drawn |-> drawn,
          draws |-> draws]
    ELSE LET row == (k - 1) \div w
             col == (k - 1) % w
             foundElement == FindTilePieceOnPosition(tp, Pos(row, col))
         IN IF tp[foundElement].value = Undefined
            THEN LET shifted == ShiftElementsInColumn(tp,
                                    tp[foundElement].position.row,
                                    tp[foundElement].position.col)
                     n == GeneratorNext(g)
                     top == FindTilePieceOnPosition(shifted,
                                Pos(0, tp[foundElement].position.col))
                 IN IF n.threw
                    THEN [tilePieces |-> shifted, generator |-> g,
                          threw |-> TRUE, drawn |-> drawn, draws |-> draws]
                    ELSE RefillFrom([shifted EXCEPT ![top].value = n.value],
                                    w, n.generator, k + 1, Append(drawn, n.value),
                                    Append(draws, Draw(tp[foundElement].position, shifted)))
            ELSE RefillFrom(tp, w, g, k + 1, drawn, draws)

Refill == [kind |-> "Refill"]

\* the cells a refill has to fill
Missing(tp) == Cardinality({k \in 1..Len(tp) : tp[k].value = Undefined})

\* the column matches reported ahead of the row matches: the fault
\* RowMatchesBeforeColumnMatches catches
FindMatchesColumnsFirst(v, tp, w, h) ==
    LET rowMatchResults == RowScan(v, tp, h)
        columnMatchResults == ColumnScan(v, tp, w)
    IN [found |-> Len(rowMatchResults.matches) # 0
                     \/ Len(columnMatchResults.matches) # 0,
        rowEffects |-> rowMatchResults.boardEffects,
        columnEffects |-> columnMatchResults.boardEffects,
        effects |-> columnMatchResults.boardEffects \o rowMatchResults.boardEffects,
        start |-> tp,
        cleared |-> MatchValuesRemoved(tp, rowMatchResults.matches,
                                       columnMatchResults.matches)]

\* CheckBoard up to its call of UpdateBoard: the two scans and the clear
\*   found: whether the pass found a match;  cleared: the board after the clear
FindMatches(v, tp, w, h) ==
    LET rowMatchResults == RowScan(v, tp, h)
        columnMatchResults == ColumnScan(v, tp, w)
    IN [found |-> Len(rowMatchResults.matches) # 0
                     \/ Len(columnMatchResults.matches) # 0,
        rowEffects |-> rowMatchResults.boardEffects,
        columnEffects |-> columnMatchResults.boardEffects,
        effects |-> rowMatchResults.boardEffects \o columnMatchResults.boardEffects,
        start |-> tp,
        cleared |-> MatchValuesRemoved(tp, rowMatchResults.matches,
                                       columnMatchResults.matches)]

\* an UpdateBoard that never says Refill: the fault LogIsPassBlocks catches
UpdateBoardSilent(v, m, w, g) ==
    LET u == RefillFrom(m.cleared, w, g, 1, <<>>, <<>>)
    IN [found |-> TRUE, threw |-> u.threw,
        rowEffects |-> m.rowEffects, columnEffects |-> m.columnEffects,
        effects |-> m.effects,
        start |-> m.start, cleared |-> m.cleared,
        tilePieces |-> u.tilePieces, generator |-> u.generator,
        drawn |-> u.drawn, draws |-> u.draws]

\* UpdateBoard, up to its own call of CheckBoard (the next pass).
\*   effects: what the pass emits, in order.  The functional UpdateBoard pushes
\*   Refill after the refill loop (not at all when the supplier throws); the OO
\*   UpdateBoard calls the listeners with Refill before the loop.
UpdateBoard(v, m, w, g) ==
    LET u == RefillFrom(m.cleared, w, g, 1, <<>>, <<>>)
    IN [found |-> TRUE, threw |-> u.threw,
        rowEffects |-> m.rowEffects, columnEffects |-> m.columnEffects,
        effects |-> IF v = "functional"
                    THEN m.effects \o (IF u.threw THEN <<>> ELSE <<Refill>>)
                    ELSE m.effects \o <<Refill>>,
        start |-> m.start, cleared |-> m.cleared,
        tilePieces |-> u.tilePieces, generator |-> u.generator,
        drawn |-> u.drawn, draws |-> u.draws]

\* the board as it stands when pass r emits its Match effects (during the
\* scans, before the clear) and when it emits its Refill: the OO UpdateBoard
\* calls the listeners first and shifts and refills afterwards, the functional
\* one pushes Refill after the loops
BoardAtMatch(r) == r.start

BoardAtRefill(v, r) == IF v = "oo" THEN r.cleared ELSE r.tilePieces

\* One CheckBoard call and, when it finds a match, the UpdateBoard it calls
CheckBoard(v, tp, w, h, g) ==
    LET m == FindMatches(v, tp, w, h)
    IN IF m.found THEN UpdateBoard(v, m, w, g)
       ELSE [found |-> FALSE, threw |-> FALSE,
             rowEffects |-> <<>>, columnEffects |-> <<>>, effects |-> m.effects,
             start |-> tp, cleared |-> tp,
             tilePieces |-> tp, generator |-> g, drawn |-> <<>>,
             draws |-> <<>>]

\* ------------------------------------------------------------------- state
VARIABLES
    variant,         \* "functional" or "oo": which board.ts runs
    width, height,   \* Board.width, Board.height
    tilePieces,      \* Board.tilePieces
    generator,       \* the supplier handed to create/move (boardGenerator)
    boardListeners,  \* OO: how many listeners addListener has registered
    isEventsEnabled, \* OO: Board.isEventsEnabled
    pc,              \* "idle", "resolving" (inside move's cascade), "returned", "thrown"
    call,            \* the public call in progress or just ended
    result,          \* what that call returned
    before,          \* board and supplier as they were when the call was made
    boardEffects,    \* functional: the effects array of the move
    notified,        \* OO: the listener invocations of the call, in order
    pass,            \* the latest pass of the cascade
    passes           \* passes of this move so far: the count up to MaxPasses,
                     \* beyond it MaxPasses + 1 or MaxPasses + 2 by turns

vars == <<variant, width, height, tilePieces, generator, boardListeners,
          isEventsEnabled, pc, call, result, before, boardEffects, notified,
          pass, passes>>

board == <<variant, width, height>>

NoCall == [op |-> "none", first |-> Pos(0, 0), second |-> Pos(0, 0)]
NoResult == [legal |-> FALSE, value |-> Undefined]
NoBefore == [tilePieces |-> <<>>, generator |-> AnyGenerator]
NoPass == [found |-> FALSE, threw |-> FALSE, rowEffects |-> <<>>,
           columnEffects |-> <<>>, effects |-> <<>>, start |-> <<>>,
           cleared |-> <<>>, tilePieces |-> <<>>,
           generator |-> AnyGenerator, drawn |-> <<>>, draws |-> <<>>]

\* the board field of a functional Refill effect, as its reader finds it:
\* UpdateBoard pushes the Board object it was handed, the one every pass
\* mutates in place and move returns, without copying it
RefillBoard == tilePieces

Dims == {d \in (1..MaxWidth) \X (1..MaxHeight) : d[1] * d[2] <= MaxCells}

\* Init / CreateBoard: one piece per cell, row-major, values from the supplier
CreateBoard(w, h, fill) ==
    [k \in 1..(w * h) |-> Piece((k - 1) \div w, (k - 1) % w, fill[k])]

\* the test suppliers: new GeneratorFake(...), new CyclicGenerator(...)
Suppliers ==
    {GeneratorFake(n) : n \in 0..MaxQueue}
        \cup {CyclicGenerator(c) : c \in UNION {[1..n -> Values] : n \in 1..MaxCycle}}

\* positions a caller may pass: every cell, and one position beyond each edge
Positions ==
    {Pos(r, c) : r \in 0..(height - 1), c \in 0..(width - 1)}
        \cup {Pos(-1, 0), Pos(height, 0), Pos(0, -1), Pos(0, width)}

\* forEach listener, for each event in order
RECURSIVE Deliver(_, _)
Deliver(events, n) ==
    IF Len(events) = 0 THEN <<>>
    ELSE [l \in 1..n |-> [listener |-> l, event |-> Head(events)]]
         \o Deliver(Tail(events), n)

Legal(v, tp, w, h, a, b) ==
    IF v = "functional" THEN IsMoveLegal(tp, w, h, a, b)
    ELSE OOIsMoveLegal(tp, w, h, a, b)

\* the Match events an OO legality check hands to the listeners: none unless
\* isEventsEnabled is (still) set and the trial board is scanned
TrialEvents(tp, w, h, a, b, enabled) ==
    IF enabled /\ ~IsSameTile(a, b) /\ IsTileSameRowOrColumn(a, b)
          /\ IsPositionWithinBoard(w, h, a) /\ IsPositionWithinBoard(w, h, b)
    THEN LET trial == TrialBoard(tp, a, b)
         IN FindRowMatches(trial, h).boardEffects \o FindColMatches(trial, w).boardEffects
    ELSE <<>>

\* a legality check that keeps its trial swap: the fault CanMoveLeavesBoard
\* catches
TrialKept(v, tp, w, h, a, b) ==
    IF IsPositionWithinBoard(w, h, a) /\ IsPositionWithinBoard(w, h, b)
          /\ ~IsSameTile(a, b) /\ IsTileSameRowOrColumn(a, b)
    THEN TrialBoard(tp, a, b)
    ELSE tp

\* the board a legality check leaves: the trial swap undone
AfterTrial(v, tp, w, h, a, b) ==
    IF IsPositionWithinBoard(w, h, a) /\ IsPositionWithinBoard(w, h, b)
          /\ ~IsSameTile(a, b) /\ IsTileSameRowOrColumn(a, b)
    THEN IF v = "functional" THEN SwapPieces(TrialBoard(tp, a, b), a, b)
         ELSE SwapPieces(TrialBoard(tp, a, b), b, a)
    ELSE tp

\* a board fresh from create / the constructor, with the supplier it is given
Created(dims, suppliers, listeners) ==
    /\ variant \in {"functional", "oo"}
    /\ \E d \in dims :
          /\ width = d[1]
          /\ height = d[2]
          /\ \E fill \in [1..(d[1] * d[2]) -> Values] :
                tilePieces = CreateBoard(d[1], d[2], fill)
    /\ generator \in suppliers
    /\ boardListeners \in (IF variant = "oo" THEN listeners ELSE {0})
    /\ isEventsEnabled = FALSE
    /\ pc = "idle"
    /\ call = NoCall
    /\ result = NoResult
    /\ before = NoBefore
    /\ boardEffects = <<>>
    /\ notified = <<>>
    /\ pass = NoPass
    /\ passes = 0

Init == Created(Dims, {AnyGenerator}, {0})

\* a read that always answers with the first piece: the fault TileReadIsExact
\* catches
tilePieceFirst(tp, w, h, p) ==
    IF ~IsPositionOutsideBoard(w, h, p) THEN Undefined ELSE tp[1].value

\* tilePiece(board, p) / Board.piece(p): undefined outside the board
tilePiece(tp, w, h, p) ==
    IF ~IsPositionOutsideBoard(w, h, p) THEN Undefined
    ELSE tp[FindTilePieceOnPosition(tp, p)].value

\* a move that swaps whatever the legality check said: the fault
\* IllegalMoveIsNoOp catches
MovedAnyway(checked, legal, w, h, a, b) ==
    IF IsPositionWithinBoard(w, h, a) /\ IsPositionWithinBoard(w, h, b)
    THEN SwapPieces(checked, a, b)
    ELSE checked

\* the board move hands to CheckBoard, or leaves when the move is illegal
Moved(checked, legal, w, h, a, b) ==
    IF legal THEN SwapPieces(checked, a, b) ELSE checked

\* ----------------------------------------------------------------- actions
\* Board.addListener
AddListener ==
    /\ pc = "idle" /\ variant = "oo"
    /\ boardListeners < MaxListeners
    /\ boardListeners' = boardListeners + 1
    /\ UNCHANGED <<board, tilePieces, generator, isEventsEnabled, pc, call,
                   result, before, boardEffects, notified, pass, passes>>

\* tilePiece(board, p) / Board.piece(p)
TilePiece ==
    /\ pc = "idle"
    /\ \E p \in Positions :
          /\ call' = [op |-> "tilePiece", first |-> p, second |-> p]
          /\ result' = [legal |-> FALSE,
                        value |-> tilePiece(tilePieces, width, height, p)]
    /\ before' = [tilePieces |-> tilePieces, generator |-> generator]
    /\ pc' = "returned"
    /\ UNCHANGED <<board, tilePieces, generator, boardListeners, isEventsEnabled,
                   boardEffects, notified, pass, passes>>

\* canMove(board, a, b) / Board.canMove(a, b)
CanMove ==
    /\ pc = "idle"
    /\ \E a \in Positions, b \in Positions :
          /\ call' = [op |-> "canMove", first |-> a, second |-> b]
          /\ result' = [legal |-> Legal(variant, tilePieces, width, height, a, b),
                        value |-> Undefined]
          /\ tilePieces' = AfterTrial(variant, tilePieces, width, height, a, b)
          /\ notified' = Deliver(TrialEvents(tilePieces, width, height, a, b,
                                             isEventsEnabled), boardListeners)
    /\ before' = [tilePieces |-> tilePieces, generator |-> generator]
    /\ pc' = "returned"
    /\ UNCHANGED <<board, generator, boardListeners, isEventsEnabled,
                   boardEffects, pass, passes>>

\* move, up to its call of CheckBoard: the legality check and, when the move
\* is legal, the swap (OO: with isEventsEnabled set)
Move ==
    /\ pc = "idle"
    /\ \E a \in Positions, b \in Positions :
          \E legal \in {Legal(variant, tilePieces, width, height, a, b)},
             checked \in {AfterTrial(variant, tilePieces, width, height, a, b)} :
             /\ call' = [op |-> "move", first |-> a, second |-> b]
             /\ result' = [legal |-> legal, value |-> Undefined]
             /\ notified' = Deliver(TrialEvents(tilePieces, width, height, a, b,
                                                isEventsEnabled), boardListeners)
             /\ tilePieces' = Moved(checked, legal, width, height, a, b)
             /\ IF legal
                THEN /\ isEventsEnabled' = (variant = "oo")
                     /\ pc' = "resolving"
                ELSE /\ isEventsEnabled' = isEventsEnabled
                     /\ pc' = "returned"
    /\ before' = [tilePieces |-> tilePieces, generator |-> generator]
    /\ boardEffects' = <<>>
    /\ UNCHANGED <<board, generator, boardListeners, pass, passes>>

\* CheckBoard finds a match: clear, UpdateBoard (shift, refill), then the next
\* CheckBoard; or the supplier throws in the refill and move ends with it
CascadePass ==
    /\ pc = "resolving"
    /\ \E m \in {FindMatches(variant, tilePieces, width, height)} :
          /\ m.found
          /\ \E s \in Supplies(generator, Missing(m.cleared)) :
                \E r \in {UpdateBoard(variant, m, width, Upcoming(generator, s))} :
                   /\ tilePieces' = r.tilePieces
                   /\ generator' = r.generator
                   /\ pass' = r
                   /\ pc' = IF r.threw THEN "thrown" ELSE "resolving"
                   /\ IF passes < MaxPasses
                      THEN /\ passes' = passes + 1
                           /\ boardEffects' = IF variant = "functional"
                                               THEN boardEffects \o r.effects
                                               ELSE boardEffects
                           /\ notified' = IF variant = "oo"
                                           THEN notified \o Deliver(r.effects, boardListeners)
                                           ELSE notified
                      ELSE /\ passes' = IF passes = MaxPasses + 1 THEN MaxPasses + 2
                                      ELSE MaxPasses + 1
                           /\ UNCHANGED <<boardEffects, notified>>
    /\ UNCHANGED <<board, boardListeners, isEventsEnabled, call, result, before>>

\* CheckBoard finds no match: the cascade is over and move returns
MoveReturn ==
    /\ pc = "resolving"
    /\ ~FindMatches(variant, tilePieces, width, height).found
    /\ isEventsEnabled' = FALSE
    /\ pc' = "returned"
    /\ UNCHANGED <<board, tilePieces, generator, boardListeners, call, result,
                   before, boardEffects, notified, pass, passes>>

\* the caller goes on to its next call (after the supplier's error too, on
\* boards of up to MaxRecoverCells cells); an AnyGenerator has MaxQueue values
\* to hand out again
Resume ==
    /\ \/ pc = "returned"
       \/ pc = "thrown" /\ width * height <= MaxRecoverCells
    /\ pc' = "idle"
    /\ call' = NoCall
    /\ result' = NoResult
    /\ before' = NoBefore
    /\ boardEffects' = <<>>
    /\ notified' = <<>>
    /\ pass' = NoPass
    /\ passes' = 0
    /\ generator' = IF generator.kind = "any" THEN AnyGenerator ELSE generator
    /\ UNCHANGED <<board, tilePieces, boardListeners, isEventsEnabled>>

Next ==
    \/ AddListener
    \/ TilePiece
    \/ CanMove
    \/ Move
    \/ CascadePass
    \/ MoveReturn
    \/ Resume

Spec == Init /\ [][Next]_vars

\* One move on a 3 x 3 board, the smallest on which a row and a column can
\* match at once, with a listener and a supplier that never runs out
Square == {<<3, 3>>}

InOrder == [k \in 1..Cardinality(Values) |-> k]

OneMove ==
    \/ Move
    \/ CascadePass
    \/ MoveReturn

SquareSpec ==
    Created(Square, {CyclicGenerator(InOrder)}, {MaxListeners}) /\ [][OneMove]_vars

\* One move on a 3 x 3 board or on a single row or column of six tiles, the
\* shortest line that holds two matches
Lines == {<<6, 1>>, <<1, 6>>}

ScanSpec ==
    /\ Created(Square \cup Lines, {CyclicGenerator(InOrder)}, {MaxListeners})
    /\ [][OneMove]_vars

\* the test suppliers, whose values come in a fixed order or run out
SuppliedDims == {d \in Dims : d[1] * d[2] <= MaxSuppliedCells}

\* A call of move that is under way keeps running: its next step is taken.
\* Inside move the only steps are CascadePass and MoveReturn, one of them is
\* possible whenever pc = "resolving", and each changes pc or passes; so a
\* step of Next satisfies Running exactly when it is one of those two, and
\* WF_<<pc, passes>>(Running) is WF_vars(CascadePass \/ MoveReturn).
Running ==
    /\ pc = "resolving"
    /\ pc' \in {"resolving", "returned", "thrown"}
    /\ passes' \in 0..(MaxPasses + 2)

SuppliedSpec ==
    /\ Created(SuppliedDims, Suppliers, {0})
    /\ [][Next]_vars
    /\ WF_<<pc, passes>>(Running)

\* A caller that goes on after a move, whether it returned or the supplier's
\* error ended it, on one column of five tiles: it queues more values with
\* GeneratorFake.prepare and makes its next call on the same board.
Tall == {<<1, 5>>}

\* generator.prepare(...e) between two calls: n more values queued
Prepare ==
    /\ pc \in {"returned", "thrown"}
    /\ generator.kind = "fake"
    /\ \E n \in 0..(MaxPrepared - generator.queued) :
          generator' = [generator EXCEPT !.queued = generator.queued + n,
                                         !.sequence = <<>>]
    /\ pc' = "idle"
    /\ call' = NoCall
    /\ result' = NoResult
    /\ before' = NoBefore
    /\ boardEffects' = <<>>
    /\ notified' = <<>>
    /\ pass' = NoPass
    /\ passes' = 0
    /\ UNCHANGED <<board, tilePieces, boardListeners, isEventsEnabled>>

Calls ==
    \/ CanMove
    \/ Move
    \/ CascadePass
    \/ MoveReturn
    \/ Prepare

PreparedSpec ==
    /\ Created(Tall, {GeneratorFake(n) : n \in 0..MaxPrepared}, {MaxListeners})
    /\ [][Calls]_vars

\* ------------------------------------------------------------ construction
\* create / new Board(...) itself, from a supplier whose values are known:
\* a GeneratorFake built with the values s, or a CyclicGenerator. The caller
\* may ask for any dimensions, zero and negative ones too.
MaxCreate == 3
MaxFakeValues == 6

FakeOf(s) == [kind |-> "fake", sequence |-> s, index |-> 0, queued |-> Len(s)]

KnownSuppliers ==
    {FakeOf(s) : s \in UNION {[1..n -> Values] : n \in 0..MaxFakeValues}}
        \cup {CyclicGenerator(c) : c \in UNION {[1..n -> Values] : n \in 1..MaxCycle}}

\* the loops of Init / CreateBoard run by column first: the fault
\* CreateFillsRowMajor catches
RECURSIVE InitColumnsFirst(_, _, _, _, _, _)
InitColumnsFirst(g, h, w, row, col, pieces) ==
    IF col >= w THEN [threw |-> FALSE, pieces |-> pieces, generator |-> g]
    ELSE IF row >= h THEN InitColumnsFirst(g, h, w, 0, col + 1, pieces)
    ELSE LET n == GeneratorNext(g)
         IN IF n.threw
            THEN [threw |-> TRUE, pieces |-> pieces, generator |-> n.generator]
            ELSE InitColumnsFirst(n.generator, h, w, row + 1, col,
                                  Append(pieces, Piece(row, col, n.value)))

\* the loops of Init / CreateBoard from (row, col) on: for each row, for each
\* column, push the piece with generator.next() as its value
RECURSIVE InitFrom(_, _, _, _, _, _)
InitFrom(g, h, w, row, col, pieces) ==
    IF row >= h THEN [threw |-> FALSE, pieces |-> pieces, generator |-> g]
    ELSE IF col >= w THEN InitFrom(g, h, w, row + 1, 0, pieces)
    ELSE LET n == GeneratorNext(g)
         IN IF n.threw
            THEN [threw |-> TRUE, pieces |-> pieces, generator |-> n.generator]
            ELSE InitFrom(n.generator, h, w, row, col + 1,
                          Append(pieces, Piece(row, col, n.value)))

create(g, w, h) == InitFrom(g, h, w, 0, 0, <<>>)

\* nothing constructed yet
Unbuilt ==
    /\ variant \in {"functional", "oo"}
    /\ width = 0
    /\ height = 0
    /\ tilePieces = <<>>
    /\ generator \in KnownSuppliers
    /\ boardListeners = 0
    /\ isEventsEnabled = FALSE
    /\ pc = "new"
    /\ call = NoCall
    /\ result = NoResult
    /\ before = NoBefore
    /\ boardEffects = <<>>
    /\ notified = <<>>
    /\ pass = NoPass
    /\ passes = 0

\* create(generator, w, h) / new Board(generator, w, h): the board, or the
\* supplier's error and no board. width and height hold what was asked for.
Create ==
    /\ pc = "new"
    /\ \E w \in (-1)..MaxCreate, h \in (-1)..MaxCreate :
          \E made \in {create(generator, w, h)} :
             /\ width' = w
             /\ height' = h
             /\ tilePieces' = (IF made.threw THEN <<>> ELSE made.pieces)
             /\ generator' = made.generator
             /\ pc' = (IF made.threw THEN "thrown" ELSE "returned")
    /\ call' = [NoCall EXCEPT !.op = "create"]
    /\ before' = [tilePieces |-> tilePieces, generator |-> generator]
    /\ UNCHANGED <<variant, boardListeners, isEventsEnabled, result,
                   boardEffects, notified, pass, passes>>

CreateSpec == Unbuilt /\ [][Create]_vars

\* -------------------------------------------------------------- properties
\* What the properties speak of is read off the grid cell by cell, row-major,
\* and not through the program's own searches.
ValueAt(tp, r, c) == tp[r * width + c + 1].value

InBoard(p) == p.row >= 0 /\ p.row < height /\ p.col >= 0 /\ p.col < width

Aligned(a, b) == a.row = b.row \/ a.col = b.col

\* three contiguous equal values in some row or some column
HasRun(tp) ==
    \E r \in 0..(height - 1), c \in 0..(width - 1) :
       \/ /\ c + 2 < width
          /\ ValueAt(tp, r, c) = ValueAt(tp, r, c + 1)
          /\ ValueAt(tp, r, c) = ValueAt(tp, r, c + 2)
       \/ /\ r + 2 < height
          /\ ValueAt(tp, r, c) = ValueAt(tp, r + 1, c)
          /\ ValueAt(tp, r, c) = ValueAt(tp, r + 2, c)

\* the grid with the values of cells a and b exchanged
Exchanged(tp, a, b) ==
    LET i == a.row * width + a.col + 1
        j == b.row * width + b.col + 1
    IN [k \in 1..Len(tp) |->
          [tp[k] EXCEPT !.value = IF k = i THEN tp[j].value
                                  ELSE IF k = j THEN tp[i].value
                                  ELSE tp[k].value]]

Returned(op) == pc = "returned" /\ call.op = op

\* the ordered effect log of the move: the functional effects array, the
\* events the first listener was called with
Log ==
    IF variant = "functional" THEN boardEffects
    ELSE LET Mine(n) == n.listener = 1
             mine == SelectSeq(notified, Mine)
         IN [k \in 1..Len(mine) |-> mine[k].event]

Observed == variant = "oo" => boardListeners >= 1

\* C1: after canMove returns, whatever the two positions, every tile holds
\* the value it held before the call and no value has been drawn from the
\* supplier.
CanMoveLeavesBoard ==
    Returned("canMove") =>
        /\ tilePieces = before.tilePieces
        /\ generator = before.generator
        /\ passes = 0

\* a canMove that answered true for two tiles of different values has returned
CanMoveLeavesBoardWitness ==
    /\ Returned("canMove")
    /\ result.legal
    /\ ValueAt(before.tilePieces, call.first.row, call.first.col)
          # ValueAt(before.tilePieces, call.second.row, call.second.col)

\* C2: a move on an illegal pair is a no-op: the effect sequence is empty,
\* every tile holds the value it held, no listener is called and no value is
\* drawn from the supplier.
IllegalMoveIsNoOp ==
    (Returned("move") /\ ~result.legal) =>
        /\ boardEffects = <<>>
        /\ tilePieces = before.tilePieces
        /\ notified = <<>>
        /\ generator = before.generator
        /\ passes = 0

\* an illegal move on two tiles in one line, of different values, has returned
IllegalMoveIsNoOpWitness ==
    /\ Returned("move")
    /\ ~result.legal
    /\ InBoard(call.first) /\ InBoard(call.second)
    /\ call.first # call.second
    /\ Aligned(call.first, call.second)
    /\ ValueAt(before.tilePieces, call.first.row, call.first.col)
          # ValueAt(before.tilePieces, call.second.row, call.second.col)

\* C3: when a move on a legal swap returns, the board has no match: no row and
\* no column holds three or more contiguous tiles of equal value.
FinalBoardHasNoMatch ==
    (Returned("move") /\ result.legal) => ~HasRun(tilePieces)

\* C4, as stated: a move under way always ends (with a GeneratorFake or a
\* CyclicGenerator as the supplier).
MoveEnds == (pc = "resolving") ~> (pc \in {"returned", "thrown"})

\* C4, amended: with a supplier of finitely many values (GeneratorFake) a move
\* under way always ends: it returns after a pass without a match, or the
\* supplier's error ends it.
FiniteSupplyEndsMove ==
    (pc = "resolving" /\ generator.kind = "fake")
        ~> (pc \in {"returned", "thrown"})

\* a legal move fed by a GeneratorFake has returned after a pass
FiniteSupplyEndsMoveWitness ==
    /\ Returned("move")
    /\ result.legal
    /\ generator.kind = "fake"
    /\ passes >= 1

\* one or more blocks, each one or more Match and then one Refill
PassBlocks(log) ==
    /\ Len(log) > 0
    /\ log[1].kind = "Match"
    /\ log[Len(log)].kind = "Refill"
    /\ \A i \in 2..Len(log) : log[i].kind = "Refill" => log[i - 1].kind = "Match"

\* C5: the effect log of a legal move is non-empty and is made of pass blocks,
\* each one or more Match effects followed by exactly one Refill; its last
\* effect is Refill.
LogIsPassBlocks ==
    (Returned("move") /\ result.legal /\ Observed) => PassBlocks(Log)

\* a legal move has returned with a log of two blocks or more
LogIsPassBlocksWitness ==
    /\ Returned("move")
    /\ result.legal
    /\ Cardinality({i \in 1..Len(Log) : Log[i].kind = "Refill"}) >= 2

IsRowMatch(e) ==
    e.kind = "Match" /\ \A k \in 1..Len(e.positions) :
                           e.positions[k].row = e.positions[1].row

IsColumnMatch(e) ==
    e.kind = "Match" /\ \A k \in 1..Len(e.positions) :
                           e.positions[k].col = e.positions[1].col

\* C6: within one pass every Match effect of a row match is emitted before
\* every Match effect of a column match.
RowMatchesBeforeColumnMatches ==
    \A i \in 1..Len(pass.effects), j \in 1..Len(pass.effects) :
        (IsColumnMatch(pass.effects[i]) /\ IsRowMatch(pass.effects[j])) => j < i

\* a move has returned whose latest pass held a row match and a column match
RowMatchesBeforeColumnMatchesWitness ==
    /\ Returned("move")
    /\ \E i \in 1..Len(pass.effects) : IsRowMatch(pass.effects[i])
    /\ \E i \in 1..Len(pass.effects) : IsColumnMatch(pass.effects[i])

\* C7: canMove answers false, and does not throw, whenever the two positions
\* are equal, share neither row nor column, or one of them is off the board.
CanMoveFailsClosed ==
    (/\ call.op = "canMove"
     /\ \/ call.first = call.second
        \/ ~Aligned(call.first, call.second)
        \/ ~InBoard(call.first)
        \/ ~InBoard(call.second))
        => (pc = "returned" /\ ~result.legal)

\* canMove has answered for a cell and a position beyond the edge of its line
CanMoveFailsClosedWitness ==
    /\ Returned("canMove")
    /\ InBoard(call.first)
    /\ ~InBoard(call.second)
    /\ Aligned(call.first, call.second)

\* C8: for two distinct cells of one row or one column, canMove answers true
\* exactly when the board with the two values exchanged holds a run of three
\* or more equal contiguous values in some row or column.
CanMoveIffRun ==
    (/\ Returned("canMove")
     /\ InBoard(call.first) /\ InBoard(call.second)
     /\ call.first # call.second
     /\ Aligned(call.first, call.second))
        => (result.legal <=> HasRun(Exchanged(before.tilePieces,
                                              call.first, call.second)))

\* C9: the tile read answers undefined, without throwing, for a position off
\* the board and the stored value of the cell for a position on it.
TileReadIsExact ==
    (call.op = "tilePiece") =>
        /\ pc = "returned"
        /\ result.value = IF InBoard(call.first)
                          THEN ValueAt(tilePieces, call.first.row, call.first.col)
                          ELSE Undefined

\* a read beyond the right edge has returned
TileReadIsExactWitness ==
    /\ Returned("tilePiece")
    /\ call.first.col = width
    /\ result.value = Undefined

\* column c of the grid, top to bottom
Column(tp, c) == [r \in 1..height |-> ValueAt(tp, r - 1, c)]

IsDefined(v) == v # Undefined

\* how many of the cells in the top k rows of every column hold v
TopCount(tp, v) ==
    Cardinality({<<r, c>> \in (1..height) \X (0..(width - 1)) :
                    /\ r <= height - Len(SelectSeq(Column(pass.cleared, c), IsDefined))
                    /\ Column(tp, c)[r] = v})

\* C10: after one pass of clear, shift and refill, in every column the values
\* that were not cleared keep their top-to-bottom order and fill the
\* bottom-most rows, the top k rows (k cells of the column were cleared) hold
\* the values newly drawn from the supplier, and a column without a cleared
\* cell is as it was.
PassKeepsColumnOrder ==
    (pass.found /\ ~pass.threw) =>
        /\ \A i \in 1..Len(pass.start) :
              pass.cleared[i].value \in {pass.start[i].value, Undefined}
        /\ \A c \in 0..(width - 1) :
              LET kept == SelectSeq(Column(pass.cleared, c), IsDefined)
                  k == height - Len(kept)
                  after == Column(pass.tilePieces, c)
              IN /\ SubSeq(after, k + 1, height) = kept
                 /\ \A r \in 1..k : after[r] \in Values
                 /\ k = 0 => after = Column(pass.start, c)
        /\ Len(pass.drawn) = Missing(pass.cleared)
        /\ \A v \in Values :
              TopCount(pass.tilePieces, v)
                 = Cardinality({n \in 1..Len(pass.drawn) : pass.drawn[n] = v})

\* a pass is over that cleared a cell below a tile it kept, which gravity
\* had to bring down
PassKeepsColumnOrderWitness ==
    /\ pass.found /\ ~pass.threw
    /\ \E c \in 0..(width - 1) :
          \E r \in 1..(height - 1) :
             /\ Column(pass.cleared, c)[r] # Undefined
             /\ Column(pass.cleared, c)[r + 1] = Undefined
             /\ Column(pass.cleared, c)[r] # Column(pass.tilePieces, c)[r]

\* the positions listed by the Match effects among effects
MatchedPositions(effects) ==
    UNION {{effects[i].positions[k] : k \in 1..Len(effects[i].positions)} :
              i \in {j \in 1..Len(effects) : effects[j].kind = "Match"}}

\* C11: in every pass the number of values drawn from the supplier is the
\* number of distinct positions in the union of the matches of the pass (a
\* tile of both a row match and a column match is cleared and refilled once).
DrawsEqualMatchedTiles ==
    (pass.found /\ ~pass.threw) =>
        Len(pass.drawn) = Cardinality(MatchedPositions(pass.effects))

\* C12: in the OO variant every registered listener is called exactly once
\* per effect of a legal move, in emission order (the calls are the effects
\* of the passes, each handed to the listeners in turn, and nothing else);
\* construction and illegal moves call no listener.
ListenersHearEachEffectOnce ==
    /\ (pc = "idle" /\ call.op = "none") => notified = <<>>
    /\ (variant = "oo" /\ call.op = "move") =>
          /\ notified = Deliver(Log, boardListeners)
          /\ ~result.legal => notified = <<>>
          /\ passes = 0 => notified = <<>>
          /\ (passes \in 1..MaxPasses /\ boardListeners >= 1) =>
                /\ Len(Log) >= Len(pass.effects)
                /\ SubSeq(Log, Len(Log) - Len(pass.effects) + 1, Len(Log))
                      = pass.effects
                /\ passes = 1 => Len(Log) = Len(pass.effects)

\* C13: exploratory operations emit no effects: a canMove call, and the
\* legality check at the start of move, call no listener.
LegalityCheckIsSilent ==
    /\ call.op = "canMove" => notified = <<>>
    /\ (call.op = "move" /\ passes = 0) => notified = <<>>


\* the i-th value (0-based) a known supplier hands out
Nth(g, i) ==
    IF g.kind = "cyclic" THEN g.sequence[(i % Len(g.sequence)) + 1]
    ELSE g.sequence[i + 1]

\* C14: a board that create returns holds exactly width * height tiles, the
\* i-th value drawn from the supplier (0-based) at row i div width, column
\* i mod width; the supplier has been drawn from exactly width * height times;
\* no effect was emitted, no listener called and no match resolved, so the
\* board may contain runs.
CreateFillsRowMajor ==
    (call.op = "create" /\ pc = "returned" /\ width > 0 /\ height > 0) =>
        /\ Len(tilePieces) = width * height
        /\ \A i \in 0..(width * height - 1) :
              /\ tilePieces[i + 1].position = Pos(i \div width, i % width)
              /\ tilePieces[i + 1].value = Nth(before.generator, i)
        /\ \A r \in 0..(height - 1), c \in 0..(width - 1) :
              tilePiece(tilePieces, width, height, Pos(r, c))
                 = Nth(before.generator, r * width + c)
        /\ IF generator.kind = "cyclic"
           THEN generator.index = (width * height) % Len(generator.sequence)
           ELSE /\ generator.queued = before.generator.queued - width * height
                /\ generator.sequence
                      = SubSeq(before.generator.sequence, width * height + 1,
                               Len(before.generator.sequence))
        /\ boardEffects = <<>>
        /\ notified = <<>>
        /\ ~isEventsEnabled

\* a two-by-three or three-by-two board fresh from create, with a run in it
\* and with rows that differ
CreateFillsRowMajorWitness ==
    /\ call.op = "create"
    /\ pc = "returned"
    /\ width * height = 6
    /\ HasRun(tilePieces)
    /\ \E c \in 0..(width - 1) : ValueAt(tilePieces, 0, c) # ValueAt(tilePieces, 1, c)

\* C15: a create that is asked for a width or a height of zero or less ends
\* with an error, and the supplier has not been drawn from.
NonPositiveDimsRejected ==
    (call.op = "create" /\ (width <= 0 \/ height <= 0)) =>
        /\ pc = "thrown"
        /\ generator = before.generator

\* the integers of S are n different ones with no gap between them
Consecutive(S, n) ==
    /\ Cardinality(S) = n
    /\ \A x \in S : (\A y \in S : x <= y) \/ (x - 1) \in S

\* e is a Match of three or more positions, all different, in one row or one
\* column and next to one another, each holding e.matched on the grid tp
IsRun(e, tp) ==
    LET n == Len(e.positions)
        rows == {e.positions[k].row : k \in 1..n}
        cols == {e.positions[k].col : k \in 1..n}
    IN /\ n >= 3
       /\ \/ Cardinality(rows) = 1 /\ Consecutive(cols, n)
          \/ Cardinality(cols) = 1 /\ Consecutive(rows, n)
       /\ \A k \in 1..n :
             /\ InBoard(e.positions[k])
             /\ ValueAt(tp, e.positions[k].row, e.positions[k].col) = e.matched

\* C16: every Match effect or event has at least three positions, collinear
\* and consecutive, and each of them holds the matched value on the board as
\* it is when the Match is emitted: the board a pass starts with, or the
\* trial board of a legality check.
MatchesAreRuns ==
    /\ pass.found =>
          \A i \in 1..Len(pass.effects) :
             pass.effects[i].kind = "Match" => IsRun(pass.effects[i], pass.start)
    /\ (call.op \in {"canMove", "move"} /\ passes = 0) =>
          \A i \in 1..Len(notified) :
             IsRun(notified[i].event,
                   Exchanged(before.tilePieces, call.first, call.second))

\* a pass with a row Match and a column Match that cross in one cell
MatchesAreRunsWitness ==
    /\ pass.found
    /\ \E i \in 1..Len(pass.effects), j \in 1..Len(pass.effects) :
          /\ pass.effects[i].kind = "Match"
          /\ pass.effects[j].kind = "Match"
          /\ IsRowMatch(pass.effects[i])
          /\ IsColumnMatch(pass.effects[j])
          /\ \E k \in 1..3, l \in 1..3 :
                pass.effects[i].positions[k] = pass.effects[j].positions[l]

\* C17: whenever no move is being resolved (the board is idle between two
\* calls, or a canMove or a move has returned), every tile holds a defined
\* value.
EveryTileDefined ==
    pc \in {"idle", "returned"} =>
        \A k \in 1..Len(tilePieces) : IsDefined(tilePieces[k].value)

\* C18: whatever calls have been made, the board has exactly width * height
\* tiles, one for every cell of the rectangle, and each tile has the position
\* it was created with (tile k, in creation order, at row (k - 1) div width,
\* column (k - 1) mod width): only values change.
PositionsNeverChange ==
    /\ Len(tilePieces) = width * height
    /\ \A k \in 1..Len(tilePieces) :
          tilePieces[k].position = Pos((k - 1) \div width, (k - 1) % width)
    /\ \A r \in 0..(height - 1), c \in 0..(width - 1) :
          Cardinality({k \in 1..Len(tilePieces) : tilePieces[k].position = Pos(r, c)}) = 1

\* a second or later call has ended, a move whose cascade swapped, cleared,
\* shifted and refilled, on a board an earlier move had already changed
PositionsNeverChangeWitness ==
    /\ Returned("move")
    /\ pass.found
    /\ ~pass.threw
    /\ Len(pass.drawn) >= 3
    /\ tilePieces # before.tilePieces
    /\ \E k \in 1..Len(tilePieces) : ~IsDefined(before.tilePieces[k].value)

\* the move ended with the supplier's error: the failing pass drew fewer
\* values than it had empty cells, each value drawn filled one cell and the
\* others are still empty, the supplier is as the failing call left it, and
\* the log ends with what the pass had emitted before the failing call
FailedAtFirstError ==
    pc = "thrown" =>
        /\ call.op = "move"
        /\ result.legal
        /\ pass.found
        /\ pass.threw
        /\ Len(pass.drawn) < Missing(pass.cleared)
        /\ tilePieces = pass.tilePieces
        /\ Missing(tilePieces) = Missing(pass.cleared) - Len(pass.drawn)
        /\ generator = pass.generator
        /\ generator.kind # "cyclic"
        /\ generator.sequence = <<>>
        /\ pass.effects = pass.rowEffects \o pass.columnEffects
                             \o (IF variant = "oo" THEN <<Refill>> ELSE <<>>)
        /\ (passes \in 1..MaxPasses /\ Observed) =>
              /\ Len(Log) >= Len(pass.effects)
              /\ SubSeq(Log, Len(Log) - Len(pass.effects) + 1, Len(Log)) = pass.effects

\* a move that goes on or returns has had every empty cell of its latest pass
\* refilled: no error of the supplier was passed over
NoErrorPassedOver ==
    (call.op = "move" /\ pc \in {"resolving", "returned"} /\ passes >= 1) =>
        /\ ~pass.threw
        /\ Len(pass.drawn) = Missing(pass.cleared)
        /\ Missing(pass.tilePieces) = 0

\* once the move has ended with the error nothing more is done by it: the
\* next step is the caller's next call, on the board and supplier as they are
NothingAfterFailure ==
    pc = "thrown" =>
        /\ pc' = "idle"
        /\ tilePieces' = tilePieces
        /\ generator'.sequence = generator.sequence
        /\ boardEffects' = <<>>
        /\ notified' = <<>>

\* C19: a supplier that throws while a move refills ends the move with that
\* error; the move does not return normally, nothing is retried, the supplier
\* is not called again and no effect is emitted after the failure.
SupplierFailureEndsMove ==
    /\ [](FailedAtFirstError /\ NoErrorPassedOver)
    /\ [][NothingAfterFailure]_vars

\* a move ended by the supplier's error in its second pass, after values had
\* been drawn
SupplierFailureEndsMoveWitness ==
    /\ pc = "thrown"
    /\ passes = 2
    /\ Observed
    /\ Len(Log) >= 3

\* C20: the answer canMove has just given for (a, b) is the answer canMove
\* gives for (b, a), on the board the call was made on and on the board as the
\* call left it, whatever the two positions.
CanMoveIsSymmetric ==
    Returned("canMove") =>
        /\ result.legal = Legal(variant, before.tilePieces, width, height,
                                call.second, call.first)
        /\ result.legal = Legal(variant, tilePieces, width, height,
                                call.second, call.first)

\* canMove has answered true for two cells that hold different values
CanMoveIsSymmetricWitness ==
    /\ Returned("canMove")
    /\ result.legal
    /\ ValueAt(tilePieces, call.first.row, call.first.col)
          # ValueAt(tilePieces, call.second.row, call.second.col)

\* the least of a non-empty set of integers
Least(S) == CHOOSE x \in S : \A y \in S : x <= y

FirstCol(e) == Least({e.positions[k].col : k \in 1..Len(e.positions)})

FirstRow(e) == Least({e.positions[k].row : k \in 1..Len(e.positions)})

\* C21: among the Match effects of one pass, in the order they are emitted,
\* the row matches come by increasing row and, within a row, from left to
\* right; the column matches come by decreasing column and, within a column,
\* from top to bottom.
ScanOrderKept ==
    pass.found =>
        LET rowMatches == SelectSeq(pass.effects, IsRowMatch)
            columnMatches == SelectSeq(pass.effects, IsColumnMatch)
        IN /\ \A i \in 1..Len(rowMatches), j \in 1..Len(rowMatches) :
                 i < j =>
                    \/ rowMatches[i].positions[1].row < rowMatches[j].positions[1].row
                    \/ /\ rowMatches[i].positions[1].row = rowMatches[j].positions[1].row
                       /\ FirstCol(rowMatches[i]) < FirstCol(rowMatches[j])
           /\ \A i \in 1..Len(columnMatches), j \in 1..Len(columnMatches) :
                 i < j =>
                    \/ columnMatches[i].positions[1].col > columnMatches[j].positions[1].col
                    \/ /\ columnMatches[i].positions[1].col = columnMatches[j].positions[1].col
                       /\ FirstRow(columnMatches[i]) < FirstRow(columnMatches[j])

\* a pass on a 3 x 3 board with matches in two rows and in two columns
ScanOrderKeptWitness ==
    /\ pass.found
    /\ \E i \in 1..Len(pass.effects), j \in 1..Len(pass.effects) :
          /\ IsRowMatch(pass.effects[i])
          /\ IsRowMatch(pass.effects[j])
          /\ pass.effects[i].positions[1].row # pass.effects[j].positions[1].row
    /\ \E i \in 1..Len(pass.effects), j \in 1..Len(pass.effects) :
          /\ IsColumnMatch(pass.effects[i])
          /\ IsColumnMatch(pass.effects[j])
          /\ pass.effects[i].positions[1].col # pass.effects[j].positions[1].col

\* the maximal runs of three or more equal values in the rows of the grid tp,
\* each as the set of its positions
MaximalRowRuns(tp) ==
    {{Pos(r, c) : c \in a..b} :
        <<r, a, b>> \in
           {x \in (0..(height - 1)) \X (0..(width - 1)) \X (0..(width - 1)) :
               /\ x[3] - x[2] >= 2
               /\ \A c \in x[2]..x[3] : ValueAt(tp, x[1], c) = ValueAt(tp, x[1], x[2])
               /\ x[2] = 0 \/ ValueAt(tp, x[1], x[2] - 1) # ValueAt(tp, x[1], x[2])
               /\ x[3] = width - 1
                     \/ ValueAt(tp, x[1], x[3] + 1) # ValueAt(tp, x[1], x[2])}}

MaximalColumnRuns(tp) ==
    {{Pos(r, c) : r \in a..b} :
        <<c, a, b>> \in
           {x \in (0..(width - 1)) \X (0..(height - 1)) \X (0..(height - 1)) :
               /\ x[3] - x[2] >= 2
               /\ \A r \in x[2]..x[3] : ValueAt(tp, r, x[1]) = ValueAt(tp, x[2], x[1])
               /\ x[2] = 0 \/ ValueAt(tp, x[2] - 1, x[1]) # ValueAt(tp, x[2], x[1])
               /\ x[3] = height - 1
                     \/ ValueAt(tp, x[3] + 1, x[1]) # ValueAt(tp, x[2], x[1])}}

\* the matches a scan reports, each as the set of its positions
Reported(effects) ==
    {{effects[i].positions[k] : k \in 1..Len(effects[i].positions)} :
        i \in 1..Len(effects)}

\* C22: when move's CheckBoard scans a board whose tiles are all defined, the
\* row scan reports exactly the maximal runs of three or more in the rows,
\* each once, and the column scan exactly those in the columns, each once.
MatchFinderIsExact ==
    (pc = "resolving" /\ \A k \in 1..Len(tilePieces) : IsDefined(tilePieces[k].value)) =>
        LET rowEffects == RowScan(variant, tilePieces, height).boardEffects
            columnEffects == ColumnScan(variant, tilePieces, width).boardEffects
        IN /\ Reported(rowEffects) = MaximalRowRuns(tilePieces)
           /\ Len(rowEffects) = Cardinality(MaximalRowRuns(tilePieces))
           /\ Reported(columnEffects) = MaximalColumnRuns(tilePieces)
           /\ Len(columnEffects) = Cardinality(MaximalColumnRuns(tilePieces))

\* C23: in the OO variant, whenever a listener is called in a pass, for a
\* Match or for the Refill, every tile of the board holds a defined value.
ListenerSeesFullBoard ==
    (variant = "oo" /\ boardListeners >= 1 /\ call.op = "move" /\ pass.found) =>
        /\ \A k \in 1..Len(tilePieces) : IsDefined(BoardAtMatch(pass)[k].value)
        /\ \A k \in 1..Len(tilePieces) :
              IsDefined(BoardAtRefill(variant, pass)[k].value)

\* C24: isEventsEnabled is false in every state in which no move call is in
\* progress: between calls, after canMove, after a move that returned and
\* after a move that ended with the supplier's error.
FlagScopedToMove ==
    pc \in {"idle", "returned", "thrown"} => ~isEventsEnabled

\* the empty cells of the grid tp, row by row from the top and from left to
\* right within a row
EmptyCells(tp) ==
    LET cells == [k \in 1..(width * height) |-> Pos((k - 1) \div width, (k - 1) % width)]
        IsEmpty(p) == ValueAt(tp, p.row, p.col) = Undefined
    IN SelectSeq(cells, IsEmpty)

Other == IF variant = "functional" THEN "oo" ELSE "functional"

\* C26: what the running variant has just done is what the other variant
\* does from the same board with the same supplier: the same answer of
\* canMove and of move's legality check, and in the first pass of a move the
\* same Match and Refill effects in the same order and the same board.
VariantsAgree ==
    /\ (pc # "idle" /\ call.op \in {"canMove", "move"}) =>
          result.legal = Legal(Other, before.tilePieces, width, height,
                               call.first, call.second)
    /\ (call.op = "move" /\ passes = 1 /\ ~pass.threw) =>
          LET other == CheckBoard(Other, pass.start, width, height,
                                  Upcoming(before.generator, pass.drawn))
          IN /\ other.effects = pass.effects
             /\ other.tilePieces = pass.tilePieces

\* the positions of e go one step right along a row, or one step down along
\* a column, from each to the next
Ascends(e) ==
    \/ \A k \in 1..(Len(e.positions) - 1) :
          /\ e.positions[k + 1].row = e.positions[k].row
          /\ e.positions[k + 1].col = e.positions[k].col + 1
    \/ \A k \in 1..(Len(e.positions) - 1) :
          /\ e.positions[k + 1].col = e.positions[k].col
          /\ e.positions[k + 1].row = e.positions[k].row + 1

\* C27: the positions of every Match effect or event are listed in strictly
\* increasing order along the run, by column for a row match and by row for a
\* column match.
MatchPositionsAscend ==
    /\ pass.found =>
          \A i \in 1..Len(pass.effects) :
             pass.effects[i].kind = "Match" => Ascends(pass.effects[i])
    /\ \A i \in 1..Len(Log) : Log[i].kind = "Match" => Ascends(Log[i])

\* a pass with a Match of four positions or more
MatchPositionsAscendWitness ==
    /\ pass.found
    /\ Observed
    /\ \E i \in 1..Len(Log) :
          /\ Log[i].kind = "Match"
          /\ Len(Log[i].positions) >= 4
          /\ IsRowMatch(Log[i])

\* C28: in the functional variant, when a move of two passes has returned,
\* the board carried by the Refill effect of the first pass shows the board as
\* it stood right after the first pass (the board the second pass started
\* with).
RefillCarriesSnapshot ==
    (variant = "functional" /\ Returned("move") /\ passes = 2 /\ ~pass.threw) =>
        /\ Len(SelectSeq(Log, LAMBDA e : e.kind = "Refill")) = 2
        /\ RefillBoard = pass.start

\* the column scan of the running variant over columns from down to 0
ColumnScanFrom(tp, from) ==
    IF variant = "functional" THEN ColumnsFrom(tp, from, NoMatch)
    ELSE OOColsFrom(tp, from, NoMatch)

\* C29: the column scan starts at index width, one past the last column; the
\* tiles-in-column query for that index yields no tile, and what the scan
\* reports (matches and effects, on the board a pass starts with and on the
\* board as it is) is what a scan over columns width - 1 down to 0 reports.
ExtraColumnIsInert ==
    /\ FindAllTilePiecesInColumn(tilePieces, width) = <<>>
    /\ ColumnScan(variant, tilePieces, width) = ColumnScanFrom(tilePieces, width - 1)
    /\ pass.found =>
          /\ FindAllTilePiecesInColumn(pass.start, width) = <<>>
          /\ pass.columnEffects = ColumnScanFrom(pass.start, width - 1).boardEffects
          /\ ColumnScan(variant, pass.start, width)
                = ColumnScanFrom(pass.start, width - 1)

\* a pass whose column scan reported a match in column 0, the column scanned
\* last
ExtraColumnIsInertWitness ==
    /\ pass.found
    /\ \E i \in 1..Len(pass.columnEffects) :
          pass.columnEffects[i].positions[1].col = 0
====
